---- MODULE Spec2Model ----
(***************************************************************************)
(* VerifAI scoring and ranking core.                                       *)
(*                                                                         *)
(*   BiasDetector   src/backend/bias_analysis.py                           *)
(*   NewsSearcher   src/backend/search.py                                  *)
(*   SnowflakeManager.semantic_search  src/backend/snowflake_integration.py*)
(*                                                                         *)
(* Number representation.  Python floats are modelled by exact numbers:    *)
(*   - a VADER compound score c is the integer 100*c (hundredths);         *)
(*   - a similarity or LLM relevance score s is the integer 100*s;         *)
(*   - a ranker final_score f is the integer 1000*f (thousandths);         *)
(*   - a bias score is the rational [num, den] with den > 0.               *)
(* IEEE rounding of the float products is not modelled.                    *)
(*                                                                         *)
(* Text representation.  A text is the sequence of its maximal             *)
(* non-whitespace chunks, plus the chunk " " standing for a run of         *)
(* whitespace; the empty text is << >>.                                     *)
(***************************************************************************)
EXTENDS Integers, Sequences, FiniteSets, TLC

VARIABLES
    detector,     \* BiasDetector instance fields (self.bias_indicators)
    inbox,        \* the articles a caller analyzes again and again
    calls,        \* the analyze calls made so far: input, injected fault, outcome
    lean,         \* the most recent _get_political_leaning call
    rows,         \* warehouse: NEWS_ARTICLES joined with ARTICLE_EMBEDDINGS
    search,       \* the most recent find_related call
    probe,        \* the most recent direct call of a helper of BiasDetector
    display,      \* what ResultsDisplay.show_results rendered last
    par,          \* invocations running in parallel on the shared instances
    store,        \* the store_analysis call in progress, statement by statement
    meter         \* the most recent call of a method of BiasAnalyzer

vars == <<detector, inbox, calls, lean, rows, search, probe, display, par, store, meter>>

-----------------------------------------------------------------------------
(* Bounds of the model *)

MaxWords == 6
IdemWords == 1
MaxCalls == 3
MaxRows == 3
MaxTopK == 2
MaxPartisan == 6
MaxFiller == 15

-----------------------------------------------------------------------------
(* Rationals *)

Rat(n, d) == [num |-> n, den |-> d]
RatLeq(a, b) == a.num * b.den <= b.num * a.den
RatLt(a, b) == a.num * b.den < b.num * a.den
RatEq(a, b) == a.num * b.den = b.num * a.den
RatAbs(a) == Rat(IF a.num < 0 THEN 0 - a.num ELSE a.num, a.den)
RatMax(a, b) == IF RatLeq(a, b) THEN b ELSE a
RatMin(a, b) == IF RatLeq(a, b) THEN a ELSE b
\* n hundredths
Hundredths(n) == Rat(n, 100)

-----------------------------------------------------------------------------
(* Texts *)

Whitespace == " "

\* Chunks a text is made of.  "Shocking" is an emotional word in capitals,
\* "elite," a loaded word with a trailing comma.
Vocab == {"Shocking", "regime", "liberal", "the", "elite,", Whitespace}

\* str.lower() on the chunks of Vocab
Lower(w) ==
    IF w = "Shocking" THEN "shocking"
    ELSE IF w = "Progressive" THEN "progressive"
    ELSE w

\* str.split(): the non-whitespace chunks
Split(text) == SelectSeq(text, LAMBDA w : w # Whitespace)

LowerText(text) == [i \in 1..Len(text) |-> Lower(text[i])]

RECURSIVE Rep(_, _)
Rep(w, n) == IF n = 0 THEN << >> ELSE <<w>> \o Rep(w, n - 1)

\* The texts of at most n chunks in which equal chunks are adjacent and the
\* kinds of chunk come in one fixed order.
TextsUpTo(n) ==
    { Rep("Shocking", a) \o Rep("regime", b) \o Rep("liberal", c)
        \o Rep("the", d) \o Rep("elite,", e) \o Rep(Whitespace, f) :
        <<a, b, c, d, e, f>> \in
            { t \in (0..n) \X (0..n) \X (0..n) \X (0..n) \X (0..n) \X (0..n) :
                t[1] + t[2] + t[3] + t[4] + t[5] + t[6] <= n } }

Texts == TextsUpTo(MaxWords)

-----------------------------------------------------------------------------
(* BiasDetector: fields and sentiment *)

\* _load_bias_indicators: the three word lists
LoadBiasIndicators ==
    [ emotional_language |->
        {"outrageous", "shocking", "horrible", "terrible",
         "amazing", "incredible", "wonderful", "fantastic"},
      loaded_words |->
        {"radical", "extremist", "terrorist", "socialist",
         "conspiracy", "propaganda", "regime", "elite"},
      partisan_terms |->
        {"leftist", "rightist", "liberal", "conservative",
         "democrat", "republican", "progressive", "traditionalist"} ]

\* SentimentIntensityAnalyzer.polarity_scores is a collaborator: for a text it
\* either raises or yields a compound score in [-1,1].  These are the
\* compound scores (in hundredths) the model lets it yield.
Compounds == {-100, -21, -5, 0, 5, 21, 100}

\* _get_sentiment_label
GetSentimentLabel(compound) ==
    IF compound >= 5 THEN "positive"
    ELSE IF compound <= -5 THEN "negative"
    ELSE "neutral"

\* Number of elements of seq that are in set S
CountIn(seq, S) == Len(SelectSeq(seq, LAMBDA w : w \in S))

\* _analyze_language_patterns dividing the emotional count alone by the words
AnalyzeLanguagePatternsEmotionalOnly(self, text) ==
    LET words == Split(LowerText(text))
        counts == [ emotional |-> CountIn(words, self.bias_indicators.emotional_language),
                    loaded    |-> CountIn(words, self.bias_indicators.loaded_words),
                    partisan  |-> CountIn(words, self.bias_indicators.partisan_terms) ]
        total_words == Len(words)
    IN  [ indicator_counts |-> counts,
          emotional_score  |-> IF total_words > 0
                               THEN Rat(counts.emotional, total_words)
                               ELSE Rat(0, 1) ]

\* _analyze_language_patterns
AnalyzeLanguagePatterns(self, text) ==
    LET words == Split(LowerText(text))
        counts == [ emotional |-> CountIn(words, self.bias_indicators.emotional_language),
                    loaded    |-> CountIn(words, self.bias_indicators.loaded_words),
                    partisan  |-> CountIn(words, self.bias_indicators.partisan_terms) ]
        total_bias_words == counts.emotional + counts.loaded + counts.partisan
        total_words == Len(words)
    IN  [ indicator_counts |-> counts,
          emotional_score  |-> IF total_words > 0
                               THEN Rat(total_bias_words, total_words)
                               ELSE Rat(0, 1) ]

\* The base category with the first threshold strict: -0.6 itself falls
\* through to "left".
GetBaseCategoryStrict(bias_score) ==
    IF RatLt(bias_score, Hundredths(-60)) THEN "far left"
    ELSE IF RatLeq(bias_score, Hundredths(-20)) THEN "left"
    ELSE IF RatLeq(bias_score, Hundredths(20)) THEN "center"
    ELSE IF RatLeq(bias_score, Hundredths(60)) THEN "right"
    ELSE "far right"

\* The base category with the center band open at 0.2
GetBaseCategoryOpenCenter(bias_score) ==
    IF RatLeq(bias_score, Hundredths(-60)) THEN "far left"
    ELSE IF RatLeq(bias_score, Hundredths(-20)) THEN "left"
    ELSE IF RatLt(bias_score, Hundredths(20)) THEN "center"
    ELSE IF RatLeq(bias_score, Hundredths(60)) THEN "right"
    ELSE "far right"

\* _get_political_leaning: the base category from the score
GetBaseCategory(bias_score) ==
    IF RatLeq(bias_score, Hundredths(-60)) THEN "far left"
    ELSE IF RatLeq(bias_score, Hundredths(-20)) THEN "left"
    ELSE IF RatLeq(bias_score, Hundredths(20)) THEN "center"
    ELSE IF RatLeq(bias_score, Hundredths(60)) THEN "right"
    ELSE "far right"

\* _get_political_leaning
GetPoliticalLeaning(bias_score, indicator_counts) ==
    LET base_category == GetBaseCategory(bias_score)
        partisan_count == indicator_counts.partisan
    IN  IF partisan_count > 5 /\ bias_score.num < 0 THEN "far left"
        ELSE IF partisan_count > 5 /\ bias_score.num > 0 THEN "far right"
        ELSE base_category

-----------------------------------------------------------------------------
(* BiasDetector.analyze *)

\* article_data as analyze sees it: None, the empty dict, a dict with other
\* keys and no 'text', or a dict with 'text'
NoArticle == [kind |-> "None", has_text |-> FALSE, text |-> << >>]
EmptyDict == [kind |-> "empty", has_text |-> FALSE, text |-> << >>]
OtherDict == [kind |-> "dict", has_text |-> FALSE, text |-> << >>]
Article(t) == [kind |-> "dict", has_text |-> TRUE, text |-> t]

\* Python truthiness of article_data: None and {} are falsy
Truthy(article_data) == article_data.kind = "dict"

\* article_data.get('text', '')
GetText(article_data) == IF article_data.has_text THEN article_data.text ELSE << >>

ZeroCounts == [emotional |-> 0, loaded |-> 0, partisan |-> 0]

\* _get_default_results.  "keys" are the keys of the returned dict; a key
\* that is not among them has a placeholder value in the record.
GetDefaultResults ==
    [ keys |-> {"error", "bias_score", "political_leaning", "sentiment",
                "bias_indicators", "key_findings", "recommendations"},
      error |-> "Analysis could not be completed",
      bias_score |-> Rat(0, 1),
      political_leaning |-> "center",
      sentiment |-> "neutral",
      sentiment_scores |-> [compound |-> 0],
      bias_indicators |-> [type |-> "list", counts |-> ZeroCounts],
      key_findings |-> << >>,
      recommendations |-> << >> ]

\* The steps of the try block at which an exception can be injected
Steps == {"get", "polarity_scores", "language_patterns", "political_leaning", "findings"}
Faults == Steps \cup {"none"}

Returned(r) == [status |-> "returned", result |-> r]
Raised == [status |-> "raised", result |-> GetDefaultResults]

\* The blend with the two weights swapped: 0.7 on sentiment, 0.3 on language
BiasScoreSwapped(compound, emotional_score) ==
    LET sum == Rat(7 * compound * emotional_score.den + 300 * emotional_score.num,
                   1000 * emotional_score.den)
    IN  RatMax(Rat(-1, 1), RatMin(Rat(1, 1), sum))

\* analyze, lines 118-123: the clamped blend of sentiment and language
BiasScore(compound, emotional_score) ==
    LET \* compound*0.3 + emotional_score*0.7
        sum == Rat(3 * compound * emotional_score.den + 700 * emotional_score.num,
                   1000 * emotional_score.den)
    IN  RatMax(Rat(-1, 1), RatMin(Rat(1, 1), sum))

\* analyze, lines 128-136
KeyFindings(compound, emotional_score) ==
    (IF compound > 20 \/ compound < -20
        THEN <<IF compound < 0 THEN "Strong negative tone detected"
                               ELSE "Strong positive tone detected">>
        ELSE << >>)
    \o (IF RatLt(Hundredths(10), emotional_score)
        THEN <<"Significant use of emotional language">> ELSE << >>)

\* analyze, lines 138-144
Recommendations(bias_score, emotional_score) ==
    (IF RatLt(Hundredths(30), RatAbs(bias_score))
        THEN <<"Consider consulting sources with different perspectives">>
        ELSE << >>)
    \o (IF RatLt(Hundredths(15), emotional_score)
        THEN <<"Be aware of emotional language influence">> ELSE << >>)

\* The dict built at lines 146-154
FullResult(self, text, compound) ==
    LET language_analysis == AnalyzeLanguagePatterns(self, text)
        bias_score == BiasScore(compound, language_analysis.emotional_score)
    IN  [ keys |-> {"bias_score", "political_leaning", "sentiment", "sentiment_scores",
                    "bias_indicators", "key_findings", "recommendations"},
          error |-> "",
          bias_score |-> bias_score,
          political_leaning |->
              GetPoliticalLeaning(bias_score, language_analysis.indicator_counts),
          sentiment |-> GetSentimentLabel(compound),
          sentiment_scores |-> [compound |-> compound],
          bias_indicators |-> [type |-> "dict",
                               counts |-> language_analysis.indicator_counts],
          key_findings |-> KeyFindings(compound, language_analysis.emotional_score),
          recommendations |->
              Recommendations(bias_score, language_analysis.emotional_score) ]

\* The body of the try block, lines 107-154: an exception injected at a step
\* leaves it by raising; compound is what polarity_scores yields for the text.
AnalyzeTry(self, article_data, compound, fault) ==
    IF fault = "get" THEN Raised
    ELSE LET article_text == GetText(article_data)
         IN  IF article_text = << >> THEN Returned(GetDefaultResults)
             ELSE IF fault # "none" THEN Raised
             ELSE Returned(FullResult(self, article_text, compound))

\* analyze without its except clause: the exception reaches the caller
AnalyzeNoExcept(self, article_data, related_articles, compound, fault) ==
    IF ~Truthy(article_data) THEN Returned(GetDefaultResults)
    ELSE AnalyzeTry(self, article_data, compound, fault)

\* analyze whose except clause returns what had been computed when the
\* exception was raised, with defaults for the rest
AnalyzePartial(self, article_data, related_articles, compound, fault) ==
    IF ~Truthy(article_data) THEN Returned(GetDefaultResults)
    ELSE LET body == AnalyzeTry(self, article_data, compound, fault)
             full == FullResult(self, GetText(article_data), compound)
         IN  IF body.status = "returned" THEN body
             ELSE IF fault \in {"political_leaning", "findings"}
                  THEN Returned([GetDefaultResults EXCEPT
                                    !.bias_score = full.bias_score,
                                    !.bias_indicators = full.bias_indicators])
                  ELSE Returned(GetDefaultResults)

\* analyze without the empty-text check of line 109
AnalyzeNoEmptyCheck(self, article_data, related_articles, compound, fault) ==
    IF ~Truthy(article_data) THEN Returned(GetDefaultResults)
    ELSE IF fault # "none" THEN Returned(GetDefaultResults)
    ELSE Returned(FullResult(self, GetText(article_data), compound))

\* analyze, lines 101-158.  related_articles is accepted and never read.
Analyze(self, article_data, related_articles, compound, fault) ==
    IF ~Truthy(article_data) THEN Returned(GetDefaultResults)
    ELSE LET body == AnalyzeTry(self, article_data, compound, fault)
         IN  IF body.status = "raised" THEN Returned(GetDefaultResults) ELSE body

-----------------------------------------------------------------------------
(* State and actions: BiasDetector *)

ArticleInputs(texts) == {NoArticle, EmptyDict, OtherDict} \cup {Article(t) : t \in texts}

\* A candidate of related_articles: metadata.domain ("" when missing or
\* None) and metadata.content
Candidate(domain, content) == [metadata |-> [domain |-> domain, content |-> content]]

\* related_articles: None or a list
NoneRelated == [is_none |-> TRUE, items |-> << >>]
ListRelated(items) == [is_none |-> FALSE, items |-> items]

\* related_articles or []
OrEmpty(related_articles) == related_articles.items

\* related_articles as passed to analyze: None, or one left-leaning candidate
RelatedInputs == {NoneRelated, ListRelated(<<Candidate("a.example", <<"liberal">>)>>)}

\* __init__, lines 10-21
NewDetector == [bias_indicators |-> LoadBiasIndicators]

\* A detector whose analyze adds the words of the text to partisan_terms
DetectorLearnsWords(self, article_data) ==
    [self EXCEPT !.bias_indicators.partisan_terms =
        @ \cup {Lower(article_data.text[i]) : i \in 1..Len(article_data.text)}]

\* The detector after analyze: no statement of lines 101-158 assigns a field
DetectorAfterAnalyze(self, article_data) == self

\* One analyze call on the shared detector; compound and fault are what
\* polarity_scores and the other steps do for this article.
AnalyzeRecord(article_data, related_articles, compound, fault) ==
    [ article_data |-> article_data, related_articles |-> related_articles,
      compound |-> compound, fault |-> fault,
      outcome |-> Analyze(detector, article_data, related_articles, compound, fault) ]

\* A first analyze call on any article
AnalyzeCall ==
    /\ calls = << >>
    /\ inbox = << >>
    /\ \E article_data \in ArticleInputs(Texts), related_articles \in RelatedInputs,
          compound \in Compounds, fault \in Faults :
          /\ calls' = <<AnalyzeRecord(article_data, related_articles, compound, fault)>>
          /\ detector' = DetectorAfterAnalyze(detector, article_data)
    /\ UNCHANGED <<inbox, lean, rows, search, probe, display, par, store, meter>>

\* Longer texts: some partisan words among filler words
LongTexts ==
    {Rep("liberal", a) \o Rep("the", b) : a \in 0..MaxPartisan, b \in 0..MaxFiller}

\* A first analyze call on a longer text, nothing raising
AnalyzeLongCall ==
    /\ calls = << >>
    /\ inbox = << >>
    /\ \E text \in LongTexts, related_articles \in RelatedInputs, compound \in Compounds :
          /\ calls' = <<AnalyzeRecord(Article(text), related_articles, compound, "none")>>
          /\ detector' = DetectorAfterAnalyze(detector, Article(text))
    /\ UNCHANGED <<inbox, lean, rows, search, probe, display, par, store, meter>>

\* An analyze call on one of the articles of the inbox
AnalyzeRepeat ==
    /\ Len(calls) < MaxCalls
    /\ \E i \in 1..Len(inbox) :
          /\ calls' = Append(calls, AnalyzeRecord(inbox[i].article_data,
                                 inbox[i].related_articles, inbox[i].compound,
                                 inbox[i].fault))
          /\ detector' = DetectorAfterAnalyze(detector, inbox[i].article_data)
    /\ UNCHANGED <<inbox, lean, rows, search, probe, display, par, store, meter>>

\* Scores in [-1,1] in hundredths, and partisan counts around the threshold
LeanScores == -100..100
LeanPartisan == {0, 5, 6}

NoLean == [valid |-> FALSE, bias_score |-> Rat(0, 1), indicator_counts |-> ZeroCounts,
           leaning |-> "center"]

LeaningCall ==
    /\ ~lean.valid
    /\ \E n \in LeanScores, p \in LeanPartisan :
          LET counts == [ZeroCounts EXCEPT !.partisan = p]
          IN  lean' = [valid |-> TRUE, bias_score |-> Hundredths(n),
                       indicator_counts |-> counts,
                       leaning |-> GetPoliticalLeaning(Hundredths(n), counts)]
    /\ UNCHANGED <<detector, inbox, calls, rows, search, probe, display, par, store, meter>>

-----------------------------------------------------------------------------
(* Ranking: SnowflakeManager.semantic_search and NewsSearcher *)

\* Cosine similarities (hundredths) the embedding model yields for a row
Scores == {50, 80, 90}

\* What the LLM's JSON holds under the key str(i): nothing, a number
\* (hundredths), or a value that is no number
Missing == [kind |-> "missing", val |-> 0]
Num(n) == [kind |-> "num", val |-> n]
NotNum == [kind |-> "str", val |-> 0]
LlmValues == {Missing, NotNum, Num(60), Num(100)}

\* How the rerank's try block goes up to json.loads: building the context
\* raises, mistral.generate raises, the answer is no JSON, the JSON is no
\* dict, or it is a dict
LlmKinds == {"context_error", "generate_error", "not_json", "not_dict", "dict"}

Take(seq, n) == SubSeq(seq, 1, IF n < Len(seq) THEN n ELSE Len(seq))

\* Insertion that puts x before the elements of equal key
InsertDescBefore(sorted, x, key) ==
    LET ahead == {i \in 1..Len(sorted) : sorted[i][key] > x[key]}
        k == Cardinality(ahead)
    IN  SubSeq(sorted, 1, k) \o <<x>> \o SubSeq(sorted, k + 1, Len(sorted))

\* x inserted into a list sorted by non-increasing r[key], after the elements
\* of equal key
InsertDesc(sorted, x, key) ==
    LET ahead == {i \in 1..Len(sorted) : sorted[i][key] >= x[key]}
        k == Cardinality(ahead)
    IN  SubSeq(sorted, 1, k) \o <<x>> \o SubSeq(sorted, k + 1, Len(sorted))

\* list.sort(key=lambda x: x[key], reverse=True): stable, non-increasing
RECURSIVE SortDesc(_, _)
SortDesc(seq, key) ==
    IF seq = << >> THEN << >>
    ELSE InsertDesc(SortDesc(SubSeq(seq, 1, Len(seq) - 1), key), seq[Len(seq)], key)

\* A result dict of semantic_search, lines 233-242.  "keys" holds which of
\* 'mistral_score' and 'final_score' the rerank has set.
SearchResult(row) ==
    [ id |-> row.id, score |-> row.score, keys |-> {},
      mistral_score |-> Missing, final_score |-> 0 ]

\* semantic_search, lines 219-249, on the fetched rows: a row whose embedding
\* cannot be parsed or has another shape is skipped
SemanticSearch(fetched, top_k) ==
    LET kept == SelectSeq(fetched, LAMBDA row : row.embedding_ok)
        results == [i \in 1..Len(kept) |-> SearchResult(kept[i])]
    IN  Take(SortDesc(results, "score"), top_k)

\* The blend with the weights 0.7 and 0.3
FinalScoreWeights73(score, mistral_score) == 7 * score + 3 * mistral_score

\* final_score as lines 117-120 compute it, in thousandths
FinalScore(score, mistral_score) == 6 * score + 4 * mistral_score

\* The scoring of one result with 0.5 for a key the dict lacks
ScoredMissingHalf(result, value) ==
    LET m == IF value.kind = "missing" THEN Num(50) ELSE value
    IN  IF m.kind = "num"
        THEN [result EXCEPT !.keys = {"mistral_score", "final_score"},
                            !.mistral_score = m,
                            !.final_score = FinalScore(result.score, m.val)]
        ELSE [result EXCEPT !.keys = {"mistral_score"}, !.mistral_score = m]

\* Lines 114-120 for one result: scores_dict.get(str(i), 0.0), then the blend
Scored(result, value) ==
    LET m == IF value.kind = "missing" THEN Num(0) ELSE value
    IN  IF m.kind = "num"
        THEN [result EXCEPT !.keys = {"mistral_score", "final_score"},
                            !.mistral_score = m,
                            !.final_score = FinalScore(result.score, m.val)]
        ELSE [result EXCEPT !.keys = {"mistral_score"}, !.mistral_score = m]

\* Line 124: final_score = score
Unscored(result) ==
    [result EXCEPT !.keys = {"final_score"}, !.final_score = 10 * result.score]

\* The index of the first result whose LLM value is no number, 0 if none
FirstBad(values) ==
    LET bad == {i \in 1..Len(values) : values[i].kind = "str"}
    IN  IF bad = {} THEN 0 ELSE CHOOSE i \in bad : \A j \in bad : i <= j

\* Lines 114-120 and 127 for a dict: every result scored and the list
\* sorted, unless a value is no number: the multiplication then raises with
\* the results before it scored and the list as it was
RerankScored(search_results, values) ==
    LET n == Len(search_results)
        bad == FirstBad(values)
    IN  IF bad = 0
        THEN [results |-> SortDesc([i \in 1..n |-> Scored(search_results[i], values[i])],
                                   "final_score"),
              handlers |-> {}]
        ELSE [results |-> [i \in 1..n |->
                              IF i <= bad THEN Scored(search_results[i], values[i])
                              ELSE search_results[i]],
              handlers |-> {"rerank"}]

\* Lines 121-127: the answer is no JSON, final_score = score, then the sort
RerankUnparsed(search_results) ==
    [results |-> SortDesc([i \in 1..Len(search_results) |->
                              Unscored(search_results[i])], "final_score"),
     handlers |-> {"json"}]

\* _rerank_with_mistral that checks the parsed JSON to be a dict before the
\* loop, and so raises on a non-dict even when there is no result
RerankChecksDict(search_results, llm) ==
    IF llm.kind \in {"context_error", "generate_error", "not_dict"}
        THEN [results |-> search_results, handlers |-> {"rerank"}]
    ELSE IF llm.kind = "not_json" THEN RerankUnparsed(search_results)
    ELSE RerankScored(search_results, llm.values)

\* _rerank_with_mistral, lines 81-132.  llm.kind says how the try block goes,
\* llm.values what the dict holds for each result.  Yields the returned list
\* and the except clauses entered.  A JSON value that is no dict has no get:
\* the first pass of the loop raises, and with no result there is no pass.
RerankWithMistral(search_results, llm) ==
    IF llm.kind \in {"context_error", "generate_error"}
        THEN [results |-> search_results, handlers |-> {"rerank"}]
    ELSE IF llm.kind = "not_json" THEN RerankUnparsed(search_results)
    ELSE IF llm.kind = "not_dict"
        THEN IF search_results = << >>
             THEN [results |-> search_results, handlers |-> {}]
             ELSE [results |-> search_results, handlers |-> {"rerank"}]
    ELSE RerankScored(search_results, llm.values)

\* semantic_search that closes its cursor only before returning
CursorLogNoFinally(encode_ok, search_ok) ==
    IF ~encode_ok THEN << >>
    ELSE IF ~search_ok THEN <<"cursor", "raise">>
    ELSE <<"cursor", "execute", "fetchall", "close">>

\* What happens to the cursor of semantic_search, lines 204-252: opened,
\* used unless the call raises first, closed by the finally clause.  When
\* the embedding of line 63 of search.py raises, semantic_search is not called.
CursorLog(encode_ok, search_ok) ==
    IF ~encode_ok THEN << >>
    ELSE IF ~search_ok THEN <<"cursor", "raise", "close">>
    ELSE <<"cursor", "execute", "fetchall", "close">>

\* The list passed to _rerank_with_mistral as the caller finds it after the
\* call: lines 115-127 assign into its dicts and sort it in place, and every
\* return statement returns that same list
ArgumentAfterRerank(search_results, llm) == RerankWithMistral(search_results, llm).results

\* find_related, lines 56-79.  env.encode_ok and env.search_ok say whether
\* the embedding model and the warehouse query succeed.
FindRelated(fetched, top_k, env) ==
    IF ~env.encode_ok \/ ~env.search_ok
        THEN [cortex_results |-> << >>, reranked |-> << >>, returned |-> << >>,
              handlers |-> {"find_related"}]
    ELSE LET cortex_results == SemanticSearch(fetched, top_k * 2)
             reranked == RerankWithMistral(cortex_results, env.llm)
         IN  [cortex_results |-> cortex_results,
              reranked |-> reranked.results,
              returned |-> Take(reranked.results, top_k),
              handlers |-> reranked.handlers]

-----------------------------------------------------------------------------
(* State and actions: warehouse and NewsSearcher *)

NoEnv == [encode_ok |-> TRUE, search_ok |-> TRUE,
          llm |-> [kind |-> "not_json", values |-> << >>]]

NoSearch == [valid |-> FALSE, top_k |-> 0, fetched |-> << >>, env |-> NoEnv,
             cortex_results |-> << >>, reranked |-> << >>, returned |-> << >>,
             handlers |-> {}, cursor_log |-> << >>]

\* index_article, lines 161-200: one more row with its embedding
IndexArticle ==
    /\ ~search.valid
    /\ Len(rows) < MaxRows
    /\ rows' = Append(rows, [id |-> Len(rows) + 1])
    /\ UNCHANGED <<detector, inbox, calls, lean, search, probe, display, par, store, meter>>

\* The LLM answers find_related can meet for n candidates
LlmAnswers(n) ==
    {[kind |-> k, values |-> [i \in 1..n |-> Missing]] : k \in LlmKinds \ {"dict"}}
    \cup {[kind |-> "dict", values |-> v] : v \in [1..n -> LlmValues]}

\* One find_related call.  cursor.fetchall() yields the rows in table order;
\* for each row the call draws whether its embedding is usable and the
\* cosine similarity to the query.
FindRelatedCall ==
    /\ ~search.valid
    /\ \E top_k \in 1..MaxTopK,
          ok \in [1..Len(rows) -> BOOLEAN],
          sim \in [1..Len(rows) -> Scores],
          encode_ok \in BOOLEAN, search_ok \in BOOLEAN :
          LET fetched == [i \in 1..Len(rows) |->
                             [id |-> rows[i].id, embedding_ok |-> ok[i],
                              score |-> IF ok[i] THEN sim[i] ELSE 0]]
              n == Len(SemanticSearch(fetched, top_k * 2))
          IN  /\ \A i \in 1..Len(rows) : ~ok[i] => sim[i] = 50
              /\ (~encode_ok) => search_ok
              /\ \E llm \in LlmAnswers(n) :
                    LET env == [encode_ok |-> encode_ok, search_ok |-> search_ok,
                                llm |-> llm]
                        out == FindRelated(fetched, top_k, env)
                    IN  /\ (~encode_ok \/ ~search_ok) => llm.kind = "not_json"
                        /\ search' = [valid |-> TRUE, top_k |-> top_k,
                                      fetched |-> fetched, env |-> env,
                                      cortex_results |-> out.cortex_results,
                                      reranked |-> out.reranked,
                                      returned |-> out.returned,
                                      handlers |-> out.handlers,
                                      cursor_log |-> CursorLog(encode_ok, search_ok)]
    /\ UNCHANGED <<detector, inbox, calls, lean, rows, probe, display, par, store, meter>>

-----------------------------------------------------------------------------
(* BiasDetector: sentiment and source analysis helpers *)

RatAdd(a, b) == Rat(a.num * b.den + b.num * a.den, a.den * b.den)

\* _analyze_sentiment with the first threshold strict
AnalyzeSentimentStrict(compound) ==
    [ sentiment |-> IF compound > 5 THEN "positive"
                    ELSE IF compound <= -5 THEN "negative"
                    ELSE "neutral",
      scores |-> [compound |-> compound] ]

\* _analyze_sentiment, lines 62-77; compound is what polarity_scores yields
AnalyzeSentiment(compound) ==
    [ sentiment |-> IF compound >= 5 THEN "positive"
                    ELSE IF compound <= -5 THEN "negative"
                    ELSE "neutral",
      scores |-> [compound |-> compound] ]

\* The primary article of the source analysis
Primary(domain, text) ==
    [kind |-> "dict", has_text |-> TRUE, text |-> text, domain |-> domain]

\* The terms of the left and right lists that occur in a chunk as substrings.
\* Of the chunks of the model only "nontraditional" holds a term it is not.
TermsIn(chunk) ==
    IF chunk = "nontraditional" THEN {"traditional"} ELSE {chunk}

LeftTerms == {"progressive", "liberal", "democrat", "socialism", "workers"}
RightTerms == {"conservative", "republican", "traditional", "freedom", "patriot"}

\* any(term in text for term in terms): substring search in the lowered text
AnyTermIn(content, terms) ==
    \E i \in 1..Len(content) : TermsIn(Lower(content[i])) \cap terms # {}

\* _is_left_leaning, lines 403-407
IsLeftLeaning(article) == AnyTermIn(article.metadata.content, LeftTerms)

\* _is_right_leaning, lines 409-413
IsRightLeaning(article) == AnyTermIn(article.metadata.content, RightTerms)

\* set(text.split())
WordSet(text) == {Split(text)[i] : i \in 1..Len(Split(text))}

\* The overlap over the words of the first text alone
CalculateTextSimilarityOverFirst(text1, text2) ==
    LET words1 == WordSet(text1)
        words2 == WordSet(text2)
    IN  IF words1 # {} THEN Rat(Cardinality(words1 \cap words2), Cardinality(words1))
        ELSE Rat(0, 1)

\* _calculate_text_similarity, lines 387-401: Jaccard overlap of the word sets
CalculateTextSimilarity(text1, text2) ==
    LET words1 == WordSet(text1)
        words2 == WordSet(text2)
        union == words1 \cup words2
    IN  IF union # {} THEN Rat(Cardinality(words1 \cap words2), Cardinality(union))
        ELSE Rat(0, 1)

RECURSIVE RatSum(_)
RatSum(seq) ==
    IF seq = << >> THEN Rat(0, 1) ELSE RatAdd(RatSum(Tail(seq)), Head(seq))

\* _calculate_source_consistency, lines 365-385
CalculateSourceConsistency(article_data, related_articles) ==
    IF related_articles = << >> THEN Rat(1, 2)
    ELSE LET main_text == LowerText(GetText(article_data))
             consistency_scores ==
                 [i \in 1..Len(related_articles) |->
                     CalculateTextSimilarity(main_text,
                         LowerText(related_articles[i].metadata.content))]
             total == RatSum(consistency_scores)
         IN  Rat(total.num, total.den * Len(related_articles))

\* The domains collected when the primary article is skipped for an empty
\* candidate list
SourceDomainsOfCandidates(article_data, related) ==
    IF related = << >> THEN {}
    ELSE (IF article_data.domain # "" THEN {article_data.domain} ELSE {})
         \cup {related[i].metadata.domain :
                 i \in {j \in 1..Len(related) : related[j].metadata.domain # ""}}

\* The domains collected at lines 271-276
SourceDomains(article_data, related) ==
    (IF article_data.domain # "" THEN {article_data.domain} ELSE {})
    \cup {related[i].metadata.domain :
            i \in {j \in 1..Len(related) : related[j].metadata.domain # ""}}

\* Diversity over the number of candidates, without the primary article
DiversityOverCandidates(sources, related) ==
    Rat(Cardinality(sources), IF Len(related) > 1 THEN Len(related) ELSE 1)

\* Line 278: len(sources) / max(len(related_articles or []) + 1, 1)
Diversity(sources, related) ==
    Rat(Cardinality(sources), IF Len(related) + 1 > 1 THEN Len(related) + 1 ELSE 1)

\* Lines 292-296: (right_leaning - left_leaning) / len(related_articles)
SourceBias(related) ==
    IF related = << >> THEN Rat(0, 1)
    ELSE LET left_leaning == Cardinality({i \in 1..Len(related) : IsLeftLeaning(related[i])})
             right_leaning == Cardinality({i \in 1..Len(related) : IsRightLeaning(related[i])})
         IN  Rat(right_leaning - left_leaning, Len(related))

\* _analyze_sources, lines 267-303, for well-formed candidates
AnalyzeSources(article_data, related_articles) ==
    LET related == OrEmpty(related_articles)
        sources == SourceDomains(article_data, related)
        n == Cardinality(sources)
    IN  [ diversity |-> Diversity(sources, related),
          \* one 0.7 for each source, averaged
          credibility |-> IF n > 0 THEN Rat(7 * n, 10 * n) ELSE Rat(1, 2),
          consistency |-> CalculateSourceConsistency(article_data, related),
          bias_score |-> SourceBias(related) ]

-----------------------------------------------------------------------------
(* BiasDetector: fact checking *)

\* Sentences as sent_tokenize yields them.  "This runs." has no copula as a
\* word, yet "is" occurs in "this".
Sentences == {"It is so.", "This runs.", "Go now."}

\* Line 360: any(word in lower_sent for word in [...]), a substring search
MakesAssertion(sentence) == sentence \in {"It is so.", "This runs."}

\* _extract_claims, lines 351-363, on the sentences of the text
ExtractClaims(sentences) == Take(SelectSeq(sentences, MakesAssertion), 5)

\* One entry of results, lines 327-333; confidence in tenths
CheckResult(claim) ==
    [claim |-> claim, verdict |-> "Needs verification", confidence |-> 7]

\* _perform_fact_checking, lines 314-349.  tokenize_ok says whether
\* sent_tokenize returns; when it raises the except clause answers.
PerformFactChecking(sentences, tokenize_ok) ==
    IF ~tokenize_ok
    THEN [results |-> << >>, accuracy |-> Rat(1, 2), bias_score |-> Rat(0, 1)]
    ELSE LET claims == ExtractClaims(sentences)
             n == Len(claims)
             \* 0.7 added for each claim, then the mean
             avg_accuracy == IF n > 0 THEN Rat(7 * n, 10 * n) ELSE Rat(1, 2)
         IN  [ results |-> [i \in 1..n |-> CheckResult(claims[i])],
               accuracy |-> avg_accuracy,
               \* (1 - avg_accuracy) * 0.5
               bias_score |-> Rat(avg_accuracy.den - avg_accuracy.num,
                                  2 * avg_accuracy.den) ]

-----------------------------------------------------------------------------
(* State and actions: helpers called directly *)

MaxCandidates == 2
SimWords == 2
MaxSentences == 6

NoProbe == [op |-> "none"]
NoDisplay == [valid |-> FALSE, bias_results |-> GetDefaultResults,
              related_articles |-> NoneRelated, steps |-> << >>]
NoPar == [threads |-> << >>, frames |-> << >>]
NoStore == [pc |-> "idle", related_articles |-> << >>, i |-> 0, log |-> << >>,
            failed |-> "none", outcome |-> "none"]
NoMeter == [op |-> "none"]

\* Contents and domains of the candidates, primary articles
SourceContents ==
    { << >>, <<"the">>, <<"liberal">>, <<"Progressive", "the">>, <<"conservative">>,
      <<"nontraditional">>, <<"liberal", "conservative">> }
SourceDomainNames == {"", "a.example", "b.example"}
Candidates == {Candidate(d, c) : d \in SourceDomainNames, c \in SourceContents}
PrimaryInputs ==
    {Primary(d, t) : d \in {"", "a.example"}, t \in {<< >>, <<"the", "liberal">>}}

RECURSIVE SeqsUpTo(_, _)
SeqsUpTo(S, n) ==
    IF n = 0 THEN {<< >>}
    ELSE LET shorter == SeqsUpTo(S, n - 1)
         IN  shorter \cup {Append(q, x) : q \in {r \in shorter : Len(r) = n - 1}, x \in S}

CandidateLists ==
    {NoneRelated} \cup {ListRelated(q) : q \in SeqsUpTo(Candidates, MaxCandidates)}

\* _analyze_language_patterns called on a text
LanguagePatternsCall ==
    /\ probe.op = "none"
    /\ \E text \in Texts :
          probe' = [op |-> "language", text |-> text,
                    out |-> AnalyzeLanguagePatterns(detector, text)]
    /\ UNCHANGED <<detector, inbox, calls, lean, rows, search, display, par, store, meter>>

\* _analyze_sentiment and _get_sentiment_label called on one compound score
SentimentCall ==
    /\ probe.op = "none"
    /\ \E compound \in -100..100 :
          probe' = [op |-> "sentiment", compound |-> compound,
                    analyzed |-> AnalyzeSentiment(compound),
                    label |-> GetSentimentLabel(compound)]
    /\ UNCHANGED <<detector, inbox, calls, lean, rows, search, display, par, store, meter>>

\* _calculate_text_similarity called on two texts, in both orders
TextSimilarityCall ==
    /\ probe.op = "none"
    /\ \E text1 \in TextsUpTo(SimWords), text2 \in TextsUpTo(SimWords) :
          probe' = [op |-> "similarity", text1 |-> text1, text2 |-> text2,
                    out |-> CalculateTextSimilarity(text1, text2),
                    swapped |-> CalculateTextSimilarity(text2, text1)]
    /\ UNCHANGED <<detector, inbox, calls, lean, rows, search, display, par, store, meter>>

\* _perform_fact_checking called on a text of some sentences
FactCheckingCall ==
    /\ probe.op = "none"
    /\ \E sentences \in SeqsUpTo(Sentences, MaxSentences), tokenize_ok \in BOOLEAN :
          probe' = [op |-> "facts", sentences |-> sentences, tokenize_ok |-> tokenize_ok,
                    out |-> PerformFactChecking(sentences, tokenize_ok)]
    /\ UNCHANGED <<detector, inbox, calls, lean, rows, search, display, par, store, meter>>

\* _analyze_sources called on a primary article and a candidate list
AnalyzeSourcesCall ==
    /\ probe.op = "none"
    /\ \E article_data \in PrimaryInputs, related_articles \in CandidateLists :
          probe' = [op |-> "sources", article_data |-> article_data,
                    related_articles |-> related_articles,
                    out |-> AnalyzeSources(article_data, related_articles)]
    /\ UNCHANGED <<detector, inbox, calls, lean, rows, search, display, par, store, meter>>

-----------------------------------------------------------------------------
(* Presentation: ResultsDisplay.show_results *)

\* bias_results.get(key) is truthy
HasTruthy(bias_results, key) ==
    /\ key \in bias_results.keys
    /\ CASE key = "bias_indicators" -> bias_results.bias_indicators.type = "dict"
         [] key = "key_findings" -> bias_results.key_findings # << >>
         [] key = "recommendations" -> bias_results.recommendations # << >>
         [] OTHER -> TRUE

\* The sections show_results renders, in order (lines 10-99)
ShowResults(bias_results, related_articles) ==
    IF "error" \in bias_results.keys THEN <<"header", "error">>
    ELSE <<"header", "metrics", "sentiment_scores">>
         \o (IF HasTruthy(bias_results, "bias_indicators") THEN <<"bias_indicators">> ELSE << >>)
         \o (IF HasTruthy(bias_results, "key_findings") THEN <<"key_findings">> ELSE << >>)
         \o (IF HasTruthy(bias_results, "recommendations") THEN <<"recommendations">> ELSE << >>)
         \o (IF HasTruthy(bias_results, "source_analysis") THEN <<"source_analysis">> ELSE << >>)
         \o (IF OrEmpty(related_articles) # << >> THEN <<"related_articles">> ELSE << >>)

\* app.py lines 288-292: the result of the analyze call is handed to
\* show_results together with the related articles
ShowResultsCall ==
    /\ Len(calls) = 1
    /\ calls[1].outcome.status = "returned"
    /\ ~display.valid
    /\ display' = [valid |-> TRUE,
                   bias_results |-> calls[1].outcome.result,
                   related_articles |-> calls[1].related_articles,
                   steps |-> ShowResults(calls[1].outcome.result,
                                         calls[1].related_articles)]
    /\ UNCHANGED <<detector, inbox, calls, lean, rows, search, probe, par, store, meter>>

-----------------------------------------------------------------------------
(* Parallel invocations on the shared instances of initialize_components *)

ParWords == 1

\* The local variables of one invocation of analyze or _rerank_with_mistral
NoFrame ==
    [ article_text |-> << >>, compound |-> 0,
      language_analysis |-> [indicator_counts |-> ZeroCounts, emotional_score |-> Rat(0, 1)],
      bias_score |-> Rat(0, 1), political_leaning |-> "center",
      search_results |-> << >>, i |-> 1 ]

\* What an invocation returns: a result dict (analyze) or a list (rank)
NoReturn == [bias_results |-> GetDefaultResults, ranked |-> << >>]

\* The invocations: analyze on an article, or the rerank on the results of
\* one semantic_search
AnalyzeJob(article_data, related_articles, compound) ==
    [ kind |-> "analyze", article_data |-> article_data,
      related_articles |-> related_articles, compound |-> compound,
      search_results |-> << >>, llm |-> [kind |-> "not_json", values |-> << >>] ]
RankJob(search_results, llm) ==
    [ kind |-> "rank", article_data |-> NoArticle, related_articles |-> NoneRelated,
      compound |-> 0, search_results |-> search_results, llm |-> llm ]

ParSearchResults ==
    { SemanticSearch(<<[id |-> 1, score |-> 50, embedding_ok |-> TRUE],
                       [id |-> 2, score |-> 80, embedding_ok |-> TRUE]>>, 4),
      SemanticSearch(<<[id |-> 3, score |-> 90, embedding_ok |-> TRUE]>>, 4) }
ParLlm ==
    { [kind |-> "not_json", values |-> << >>],
      [kind |-> "dict", values |-> <<Num(100), Num(60)>>],
      [kind |-> "dict", values |-> <<Missing, NotNum>>] }
ParJobs ==
    { AnalyzeJob(a, NoneRelated, c) : a \in ArticleInputs(TextsUpTo(ParWords)), c \in {-21, 100} }
    \cup { RankJob(r, l) : r \in ParSearchResults, l \in ParLlm }

\* A write of an invocation's locals with the locals kept on the shared
\* instance: one slot for all invocations
WriteSlotShared(frames, t, frame) == [u \in DOMAIN frames |-> frame]

\* A write of an invocation's locals: they live in the invocation's own frame
WriteSlot(frames, t, frame) == [frames EXCEPT ![t] = frame]

\* sia.polarity_scores(text): a function of the text; the compound of the
\* invocation that analyzes this text
PolarityScores(text) ==
    LET same == {u \in 1..Len(par.threads) :
                    /\ par.threads[u].job.kind = "analyze"
                    /\ GetText(par.threads[u].job.article_data) = text}
    IN  IF same = {} THEN 0 ELSE par.threads[CHOOSE u \in same : TRUE].job.compound

\* The dict built at lines 146-154 from the locals
ResultFromLocals(frame) ==
    [ keys |-> {"bias_score", "political_leaning", "sentiment", "sentiment_scores",
                "bias_indicators", "key_findings", "recommendations"},
      error |-> "",
      bias_score |-> frame.bias_score,
      political_leaning |-> frame.political_leaning,
      sentiment |-> GetSentimentLabel(frame.compound),
      sentiment_scores |-> [compound |-> frame.compound],
      bias_indicators |-> [type |-> "dict",
                           counts |-> frame.language_analysis.indicator_counts],
      key_findings |-> KeyFindings(frame.compound, frame.language_analysis.emotional_score),
      recommendations |->
          Recommendations(frame.bias_score, frame.language_analysis.emotional_score) ]

\* A step of invocation t: its position, its locals and what it returns
ParStep(t, pc, frame, returned) ==
    /\ par' = [par EXCEPT !.threads[t].pc = pc,
                          !.threads[t].returned = returned,
                          !.frames = WriteSlot(par.frames, t, frame)]
    /\ UNCHANGED <<detector, inbox, calls, lean, rows, search, probe, display, store, meter>>

\* analyze, lines 103-110: the two early returns, then article_text
AnalyzeBegin ==
    \E t \in 1..Len(par.threads) :
        LET th == par.threads[t]
            article_text == GetText(th.job.article_data)
        IN  /\ th.job.kind = "analyze" /\ th.pc = "start"
            /\ IF ~Truthy(th.job.article_data) \/ article_text = << >>
               THEN ParStep(t, "done", par.frames[t],
                            [th.returned EXCEPT !.bias_results = GetDefaultResults])
               ELSE ParStep(t, "sentiment",
                            [par.frames[t] EXCEPT !.article_text = article_text],
                            th.returned)

\* analyze, line 113
AnalyzeSentimentStep ==
    \E t \in 1..Len(par.threads) :
        /\ par.threads[t].pc = "sentiment"
        /\ ParStep(t, "language",
                   [par.frames[t] EXCEPT
                       !.compound = PolarityScores(par.frames[t].article_text)],
                   par.threads[t].returned)

\* analyze, line 116
AnalyzeLanguageStep ==
    \E t \in 1..Len(par.threads) :
        /\ par.threads[t].pc = "language"
        /\ ParStep(t, "score",
                   [par.frames[t] EXCEPT
                       !.language_analysis =
                           AnalyzeLanguagePatterns(detector, par.frames[t].article_text)],
                   par.threads[t].returned)

\* analyze, lines 119-126
AnalyzeScoreStep ==
    \E t \in 1..Len(par.threads) :
        LET frame == par.frames[t]
            bias_score == BiasScore(frame.compound, frame.language_analysis.emotional_score)
        IN  /\ par.threads[t].pc = "score"
            /\ ParStep(t, "return",
                       [frame EXCEPT
                           !.bias_score = bias_score,
                           !.political_leaning =
                               GetPoliticalLeaning(bias_score,
                                   frame.language_analysis.indicator_counts)],
                       par.threads[t].returned)

\* analyze, lines 128-154
AnalyzeReturn ==
    \E t \in 1..Len(par.threads) :
        /\ par.threads[t].pc = "return"
        /\ ParStep(t, "done", par.frames[t],
                   [par.threads[t].returned EXCEPT
                       !.bias_results = ResultFromLocals(par.frames[t])])

\* _rerank_with_mistral, lines 83-113: the list of this call, the LLM's answer
RerankBegin ==
    \E t \in 1..Len(par.threads) :
        LET th == par.threads[t]
        IN  /\ th.job.kind = "rank" /\ th.pc = "start"
            /\ ParStep(t, IF th.job.llm.kind = "dict" THEN "loop" ELSE "unparsed",
                       [par.frames[t] EXCEPT !.search_results = th.job.search_results,
                                             !.i = 1],
                       th.returned)

\* Lines 114-120: one pass of the loop; a value that is no number raises in
\* the blend and line 132 returns the list as it is
RerankLoop ==
    \E t \in 1..Len(par.threads) :
        LET th == par.threads[t]
            frame == par.frames[t]
            i == frame.i
            value == IF i <= Len(th.job.llm.values) THEN th.job.llm.values[i] ELSE Missing
        IN  /\ th.pc = "loop"
            /\ IF i > Len(frame.search_results)
               THEN ParStep(t, "sort", frame, th.returned)
               ELSE LET scored == [frame EXCEPT
                                      !.search_results[i] = Scored(@, value),
                                      !.i = i + 1]
                    IN  IF value.kind = "str"
                        THEN ParStep(t, "done", scored,
                                     [th.returned EXCEPT !.ranked = scored.search_results])
                        ELSE ParStep(t, "loop", scored, th.returned)

\* Lines 121-124: the answer is no JSON
RerankUnparsedStep ==
    \E t \in 1..Len(par.threads) :
        LET frame == par.frames[t]
        IN  /\ par.threads[t].pc = "unparsed"
            /\ ParStep(t, "sort",
                       [frame EXCEPT !.search_results =
                           [k \in 1..Len(frame.search_results) |->
                               Unscored(frame.search_results[k])]],
                       par.threads[t].returned)

\* Lines 127-128: the sort and the return
RerankSort ==
    \E t \in 1..Len(par.threads) :
        LET sorted == SortDesc(par.frames[t].search_results, "final_score")
        IN  /\ par.threads[t].pc = "sort"
            /\ ParStep(t, "done", [par.frames[t] EXCEPT !.search_results = sorted],
                       [par.threads[t].returned EXCEPT !.ranked = sorted])

-----------------------------------------------------------------------------
(* SnowflakeManager.store_analysis, statement by statement *)

MaxRelated == 2

\* The statements store_analysis sends for these related articles, in order
StoreInserts(related_articles) ==
    <<"insert_article", "insert_analysis">>
    \o [k \in 1..(2 * Len(related_articles)) |->
           IF k % 2 = 1 THEN "insert_related" ELSE "insert_relationship"]

\* One cursor.execute or conn.commit: the statement is sent, and either
\* returns, going on to pc, or raises, going on to the except clause
StoreStatement(statement, pc, i) ==
    \E ok \in BOOLEAN :
        store' = [store EXCEPT !.log = Append(@, statement),
                               !.pc = IF ok THEN pc ELSE "except",
                               !.i = i,
                               !.failed = IF ok THEN "none" ELSE statement]

\* An except clause that only prints and re-raises
OnExceptionNoRollback(log) == log

\* Lines 328-331: print, self.conn.rollback(), raise
OnException(log) == Append(log, "rollback")

\* Line 256: cursor = self.conn.cursor(), for some related articles
StoreBegin ==
    /\ store.pc = "idle"
    /\ \E related_articles \in SeqsUpTo(Scores, MaxRelated) :
          store' = [store EXCEPT !.pc = "article", !.related_articles = related_articles,
                                 !.log = <<"cursor">>]
    /\ UNCHANGED <<detector, inbox, calls, lean, rows, search, probe, display, par, meter>>

\* Lines 262-273: the article row
StoreInsertArticle ==
    /\ store.pc = "article"
    /\ StoreStatement("insert_article", "analysis", 0)
    /\ UNCHANGED <<detector, inbox, calls, lean, rows, search, probe, display, par, meter>>

\* Lines 275-291: the analysis row
StoreInsertAnalysis ==
    /\ store.pc = "analysis"
    /\ StoreStatement("insert_analysis", "related", 1)
    /\ UNCHANGED <<detector, inbox, calls, lean, rows, search, probe, display, par, meter>>

\* Lines 294-308: the row of the next related article
StoreInsertRelated ==
    /\ store.pc = "related"
    /\ store.i <= Len(store.related_articles)
    /\ StoreStatement("insert_related", "relationship", store.i)
    /\ UNCHANGED <<detector, inbox, calls, lean, rows, search, probe, display, par, meter>>

\* Lines 310-322: its relationship row
StoreInsertRelationship ==
    /\ store.pc = "relationship"
    /\ StoreStatement("insert_relationship", "related", store.i + 1)
    /\ UNCHANGED <<detector, inbox, calls, lean, rows, search, probe, display, par, meter>>

\* Lines 324-326: the loop is over; commit and return analysis_id
StoreCommit ==
    /\ store.pc = "related"
    /\ store.i > Len(store.related_articles)
    /\ \E ok \in BOOLEAN :
          store' = [store EXCEPT !.log = Append(@, "commit"),
                                 !.pc = IF ok THEN "finally" ELSE "except",
                                 !.failed = IF ok THEN "none" ELSE "commit",
                                 !.outcome = IF ok THEN "returned" ELSE "none"]
    /\ UNCHANGED <<detector, inbox, calls, lean, rows, search, probe, display, par, meter>>

\* Lines 328-331: the except clause; the exception leaves the method
StoreExcept ==
    /\ store.pc = "except"
    /\ store' = [store EXCEPT !.log = OnException(@), !.pc = "finally",
                              !.outcome = "raised"]
    /\ UNCHANGED <<detector, inbox, calls, lean, rows, search, probe, display, par, meter>>

\* Lines 332-333: finally: cursor.close()
StoreFinally ==
    /\ store.pc = "finally"
    /\ store' = [store EXCEPT !.log = Append(@, "close"), !.pc = "done"]
    /\ UNCHANGED <<detector, inbox, calls, lean, rows, search, probe, display, par, meter>>

-----------------------------------------------------------------------------
(* Presentation: BiasAnalyzer of bias_meter.py *)

\* Floats in hundredths, the two infinities and NaN
Float(n) == [kind |-> "float", val |-> n]
PosInf == [kind |-> "inf", val |-> 0]
NegInf == [kind |-> "-inf", val |-> 0]
NaN == [kind |-> "nan", val |-> 0]

\* a < b on floats: false whenever one of them is NaN
PyLess(a, b) ==
    IF a.kind = "nan" \/ b.kind = "nan" THEN FALSE
    ELSE IF a.kind = "-inf" THEN b.kind # "-inf"
    ELSE IF a.kind = "inf" THEN FALSE
    ELSE IF b.kind = "inf" THEN TRUE
    ELSE IF b.kind = "-inf" THEN FALSE
    ELSE a.val < b.val

\* min(a, b) and max(a, b) of Python: the first argument unless the second
\* is smaller (larger)
PyMin(a, b) == IF PyLess(b, a) THEN b ELSE a
PyMax(a, b) == IF PyLess(a, b) THEN b ELSE a

\* What display_bias_meter is handed: a float, a string that float() parses,
\* a string it does not, or None
TextOf(x) == [kind |-> "str", parses |-> TRUE, value |-> x]
BadText == [kind |-> "str", parses |-> FALSE, value |-> Float(0)]
NoneScore == [kind |-> "None", parses |-> FALSE, value |-> Float(0)]
Number(x) == [kind |-> "number", parses |-> TRUE, value |-> x]

\* float(bias_score): the value, or TypeError / ValueError
ToFloat(x) ==
    IF x.kind = "None" THEN [raises |-> "TypeError", value |-> Float(0)]
    ELSE IF ~x.parses THEN [raises |-> "ValueError", value |-> Float(0)]
    ELSE [raises |-> "none", value |-> x.value]

\* Lines 81-85: float(), the clamp, and 0.0 for what float() refuses
Saturate(bias_score) ==
    LET converted == ToFloat(bias_score)
    IN  IF converted.raises # "none" THEN Float(0)
        ELSE PyMax(Float(-100), PyMin(Float(100), converted.value))

\* self.bias_categories, in the order of the dict
BiasCategories ==
    << [category |-> "far_left", low |-> -100, high |-> -60],
       [category |-> "left", low |-> -60, high |-> -20],
       [category |-> "center", low |-> -20, high |-> 20],
       [category |-> "right", low |-> 20, high |-> 60],
       [category |-> "far_right", low |-> 60, high |-> 100] >>

\* _get_bias_category whose fallback is far_left for every score
GetBiasCategoryFallsLeft(bias_score) ==
    LET hits == {k \in 1..Len(BiasCategories) :
                    /\ ~PyLess(bias_score, Float(BiasCategories[k].low))
                    /\ bias_score.kind # "nan"
                    /\ PyLess(bias_score, Float(BiasCategories[k].high))}
    IN  IF hits # {}
        THEN BiasCategories[CHOOSE k \in hits : \A j \in hits : k <= j].category
        ELSE "far_left"

\* _get_bias_category, lines 57-61: the first band with low <= score < high
GetBiasCategory(bias_score) ==
    LET hits == {k \in 1..Len(BiasCategories) :
                    /\ ~PyLess(bias_score, Float(BiasCategories[k].low))
                    /\ bias_score.kind # "nan"
                    /\ PyLess(bias_score, Float(BiasCategories[k].high))}
    IN  IF hits # {}
        THEN BiasCategories[CHOOSE k \in hits : \A j \in hits : k <= j].category
        ELSE IF ~PyLess(bias_score, Float(100)) /\ bias_score.kind # "nan"
             THEN "far_right" ELSE "far_left"

\* score <= bound on floats
PyLeq(a, b) == a.kind # "nan" /\ b.kind # "nan" /\ ~PyLess(b, a)

\* _get_bias_color, lines 63-74
GetBiasColor(bias_score) ==
    IF PyLeq(bias_score, Float(-60)) THEN "rgb(65, 105, 225)"
    ELSE IF PyLeq(bias_score, Float(-20)) THEN "rgb(100, 149, 237)"
    ELSE IF PyLeq(bias_score, Float(20)) THEN "rgb(169, 169, 169)"
    ELSE IF PyLeq(bias_score, Float(60)) THEN "rgb(205, 92, 92)"
    ELSE "rgb(178, 34, 34)"

\* get_gradient_color, lines 96-107, with the colors of lines 87-93
GetGradientColor(score) ==
    IF PyLeq(score, Float(-60)) THEN "#1E3FCC"
    ELSE IF PyLeq(score, Float(-20)) THEN "#4169E1"
    ELSE IF PyLeq(score, Float(20)) THEN "#808080"
    ELSE IF PyLeq(score, Float(60)) THEN "#CD5C5C"
    ELSE "#8B0000"

\* Scores handed to the meter: floats from -1.5 to 1.5, the special floats,
\* strings and None
MeterInputs ==
    {Number(Float(n)) : n \in -150..150}
    \cup {Number(PosInf), Number(NegInf), Number(NaN)}
    \cup {TextOf(Float(50)), TextOf(Float(250)), TextOf(NaN), BadText, NoneScore}

\* display_bias_meter, lines 76-184: the score it uses, the colour of the bar
\* and the category of the label
DisplayBiasMeterCall ==
    /\ meter.op = "none"
    /\ \E input \in MeterInputs :
          LET bias_score == Saturate(input)
          IN  meter' = [op |-> "display", input |-> input, bias_score |-> bias_score,
                        bar_color |-> GetGradientColor(bias_score),
                        bias_category |-> GetBiasCategory(bias_score)]
    /\ UNCHANGED <<detector, inbox, calls, lean, rows, search, probe, display, par, store>>

\* _get_bias_color on a score within [-1,1]
BiasColorCall ==
    /\ meter.op = "none"
    /\ \E n \in -100..100 :
          meter' = [op |-> "color", bias_score |-> Float(n),
                    color |-> GetBiasColor(Float(n))]
    /\ UNCHANGED <<detector, inbox, calls, lean, rows, search, probe, display, par, store>>

-----------------------------------------------------------------------------
(* Specifications *)

Init ==
    /\ detector = NewDetector
    /\ inbox = << >>
    /\ calls = << >>
    /\ lean = NoLean
    /\ rows = << >>
    /\ search = NoSearch
    /\ probe = NoProbe
    /\ display = NoDisplay
    /\ store = NoStore
    /\ meter = NoMeter
    /\ par = NoPar

\* BiasDetector.analyze on every article, and its result displayed
Next == AnalyzeCall \/ ShowResultsCall
Spec == Init /\ [][Next]_vars

\* A caller's article with what polarity_scores and the steps of analyze do
\* for it; polarity_scores is a function of the text
IdemInputs ==
    { [article_data |-> a, related_articles |-> r, compound |-> c, fault |-> f] :
        a \in ArticleInputs(TextsUpTo(IdemWords)), r \in RelatedInputs,
        <<c, f>> \in {<<0, "polarity_scores">>, <<0, "none">>, <<100, "none">>} }

InitIdem ==
    /\ detector = NewDetector
    /\ inbox \in { <<x, y>> : x \in IdemInputs, y \in IdemInputs }
    /\ inbox[1].article_data = inbox[2].article_data
          => (inbox[1].compound = inbox[2].compound /\ inbox[1].fault = inbox[2].fault)
    /\ calls = << >>
    /\ lean = NoLean
    /\ rows = << >>
    /\ search = NoSearch
    /\ probe = NoProbe
    /\ display = NoDisplay
    /\ store = NoStore
    /\ meter = NoMeter
    /\ par = NoPar

\* Repeated analyze calls on one shared detector
NextIdem == AnalyzeRepeat
SpecIdem == InitIdem /\ [][NextIdem]_vars

\* _get_political_leaning on every score
NextLeaning == LeaningCall
SpecLeaning == Init /\ [][NextLeaning]_vars

\* BiasDetector.analyze on longer texts
NextLong == AnalyzeLongCall
SpecLong == Init /\ [][NextLong]_vars

\* The methods of BiasAnalyzer
NextMeter == DisplayBiasMeterCall \/ BiasColorCall
SpecMeter == Init /\ [][NextMeter]_vars

\* One store_analysis call
NextStore ==
    \/ StoreBegin \/ StoreInsertArticle \/ StoreInsertAnalysis
    \/ StoreInsertRelated \/ StoreInsertRelationship
    \/ StoreCommit \/ StoreExcept \/ StoreFinally
SpecStore == Init /\ [][NextStore]_vars

\* The warehouse and find_related
NextSearch == IndexArticle \/ FindRelatedCall
SpecSearch == Init /\ [][NextSearch]_vars

\* Two invocations start together on the shared instances; polarity_scores
\* is a function of the text
InitPar ==
    /\ detector = NewDetector
    /\ inbox = << >>
    /\ calls = << >>
    /\ lean = NoLean
    /\ rows = << >>
    /\ search = NoSearch
    /\ probe = NoProbe
    /\ display = NoDisplay
    /\ store = NoStore
    /\ meter = NoMeter
    /\ \E x \in ParJobs, y \in ParJobs :
          /\ (x.kind = "analyze" /\ y.kind = "analyze"
                /\ GetText(x.article_data) = GetText(y.article_data))
                => x.compound = y.compound
          /\ par = [threads |-> <<[job |-> x, pc |-> "start", returned |-> NoReturn],
                                  [job |-> y, pc |-> "start", returned |-> NoReturn]>>,
                    frames |-> <<NoFrame, NoFrame>>]

NextPar ==
    \/ AnalyzeBegin \/ AnalyzeSentimentStep \/ AnalyzeLanguageStep
    \/ AnalyzeScoreStep \/ AnalyzeReturn
    \/ RerankBegin \/ RerankLoop \/ RerankUnparsedStep \/ RerankSort
SpecPar == InitPar /\ [][NextPar]_vars

\* The helpers of BiasDetector, each called directly
NextHelpers ==
    \/ LanguagePatternsCall \/ SentimentCall \/ AnalyzeSourcesCall
    \/ TextSimilarityCall \/ FactCheckingCall
SpecHelpers == Init /\ [][NextHelpers]_vars

-----------------------------------------------------------------------------
(* Properties of BiasDetector.analyze *)

CallIds == 1..Len(calls)
ResultOf(i) == calls[i].outcome.result
SentimentLabels == {"positive", "neutral", "negative"}
LeaningLabels == {"far left", "left", "center", "right", "far right"}

\* C1: every analyze call returns to its caller (no exception escapes), with
\* bias_score in [-1,1] and sentiment one of positive, neutral, negative.
C1_ScoreAndSentimentInRange ==
    \A i \in CallIds :
        /\ calls[i].outcome.status = "returned"
        /\ RatLeq(Rat(-1, 1), ResultOf(i).bias_score)
        /\ RatLeq(ResultOf(i).bias_score, Rat(1, 1))
        /\ ResultOf(i).sentiment \in SentimentLabels

\* A text of indicator words only, analyzed with no fault and the most
\* positive sentiment, scores the full 1.0
C1_Witness ==
    \E i \in CallIds :
        /\ calls[i].fault = "none"
        /\ calls[i].article_data = Article(<<"regime", "regime", "liberal">>)
        /\ calls[i].compound = 100
        /\ "error" \notin ResultOf(i).keys
        /\ RatEq(ResultOf(i).bias_score, Rat(1, 1))

\* C3: with article_data absent (None or {}) or its text empty or missing,
\* analyze returns bias_score 0, leaning center, sentiment neutral and empty
\* lists for bias_indicators, key_findings and recommendations.
C3_EmptyArticleGivesDefault ==
    \A i \in CallIds :
        (~Truthy(calls[i].article_data) \/ GetText(calls[i].article_data) = << >>)
        => /\ calls[i].outcome.status = "returned"
           /\ ResultOf(i).bias_score = Rat(0, 1)
           /\ ResultOf(i).political_leaning = "center"
           /\ ResultOf(i).sentiment = "neutral"
           /\ ResultOf(i).bias_indicators.type = "list"
           /\ ResultOf(i).bias_indicators.counts = ZeroCounts
           /\ ResultOf(i).key_findings = << >>
           /\ ResultOf(i).recommendations = << >>

\* analyze({text: ""}) with a sentiment analyzer that would answer 1.0
C3_Witness ==
    \E i \in CallIds :
        /\ calls[i].article_data = Article(<< >>)
        /\ calls[i].fault = "none"
        /\ calls[i].compound = 100
        /\ ResultOf(i).bias_indicators.type = "list"

\* C4: when an exception is raised at any step of the try block, the caller
\* receives exactly the default result: no field of it comes from the
\* computation that failed.
C4_ErrorGivesExactDefault ==
    \A i \in CallIds :
        calls[i].fault # "none"
        => calls[i].outcome = Returned(GetDefaultResults)

\* An exception raised after the score and the leaning were computed, on a
\* text whose score is not the default's
C4_Witness ==
    \E i \in CallIds :
        /\ calls[i].fault = "findings"
        /\ calls[i].article_data = Article(<<"regime", "liberal">>)
        /\ calls[i].compound = 100
        /\ calls[i].outcome.result = GetDefaultResults

\* C7: two analyze calls on one detector with the same article_data and the
\* same related_articles return the same result, whatever was analyzed in
\* between.
C7_Idempotent ==
    \A i, j \in CallIds :
        (/\ calls[i].article_data = calls[j].article_data
         /\ calls[i].related_articles = calls[j].related_articles)
        => calls[i].outcome = calls[j].outcome

\* An article analyzed, another one analyzed, and the first analyzed again,
\* with a computed (not default) result
C7_Witness ==
    /\ Len(calls) = 3
    /\ calls[1].article_data = Article(<<"the">>)
    /\ calls[2].article_data = Article(<<"liberal">>)
    /\ calls[3].article_data = calls[1].article_data
    /\ calls[3].related_articles = calls[1].related_articles
    /\ "error" \notin ResultOf(1).keys
    /\ ResultOf(3) = ResultOf(1)

-----------------------------------------------------------------------------
(* Properties of _get_political_leaning *)

NoEscalation == lean.valid /\ lean.indicator_counts.partisan <= 5

\* C5 as claimed: without escalation, -0.61 maps to far left and -0.6 to left.
C5_Claimed ==
    NoEscalation
    => /\ lean.bias_score = Hundredths(-61) => lean.leaning = "far left"
       /\ lean.bias_score = Hundredths(-60) => lean.leaning = "left"

\* C5: without escalation, -0.61 maps to far left and so does -0.6 exactly:
\* the threshold is inclusive.
C5_BoundaryInclusive ==
    NoEscalation
    => /\ lean.bias_score = Hundredths(-61) => lean.leaning = "far left"
       /\ lean.bias_score = Hundredths(-60) => lean.leaning = "far left"

C5_Witness ==
    /\ NoEscalation
    /\ lean.bias_score = Hundredths(-60)
    /\ lean.leaning = "far left"

\* C6: without escalation the leaning of a score in [-1,1] is the band of the
\* score: <= -0.6 far left, <= -0.2 left, <= 0.2 center, <= 0.6 right, else
\* far right; it is always one of the five labels.
C6_ThresholdBands ==
    NoEscalation
    => LET n == lean.bias_score.num
       IN  /\ lean.bias_score.den = 100
           /\ lean.leaning \in LeaningLabels
           /\ (n <= -60) <=> (lean.leaning = "far left")
           /\ (-60 < n /\ n <= -20) <=> (lean.leaning = "left")
           /\ (-20 < n /\ n <= 20) <=> (lean.leaning = "center")
           /\ (20 < n /\ n <= 60) <=> (lean.leaning = "right")
           /\ (60 < n) <=> (lean.leaning = "far right")

\* A score on the upper edge of the center band, with five partisan words
C6_Witness ==
    /\ lean.valid
    /\ lean.indicator_counts.partisan = 5
    /\ lean.bias_score = Hundredths(20)
    /\ lean.leaning = "center"

-----------------------------------------------------------------------------
(* Properties of the ranker *)

Min(a, b) == IF a <= b THEN a ELSE b

\* find_related got a candidate list from the warehouse
Searched == search.valid /\ search.env.encode_ok /\ search.env.search_ok

HasFinal(r) == "final_score" \in r.keys

\* The position of the candidate with this id in a list
PosOf(list, id) == CHOOSE i \in 1..Len(list) : list[i].id = id

\* C2 as claimed: the returned list has min(top_k, |candidates|) elements and
\* is in non-increasing order of final_score, on every path of the rerank.
C2_Claimed ==
    Searched
    => /\ Len(search.returned) = Min(search.top_k, Len(search.cortex_results))
       /\ \A i, j \in 1..Len(search.returned) :
             (i < j /\ HasFinal(search.returned[i]) /\ HasFinal(search.returned[j]))
             => search.returned[i].final_score >= search.returned[j].final_score

C9_StableSorts ==
    Searched
    => /\ \A i, j \in 1..Len(search.cortex_results) :
             (i < j /\ search.cortex_results[i].score = search.cortex_results[j].score)
             => PosOf(search.fetched, search.cortex_results[i].id)
                  < PosOf(search.fetched, search.cortex_results[j].id)
       /\ \A i, j \in 1..Len(search.reranked) :
             (/\ i < j
              /\ HasFinal(search.reranked[i]) /\ HasFinal(search.reranked[j])
              /\ search.reranked[i].final_score = search.reranked[j].final_score)
             => PosOf(search.cortex_results, search.reranked[i].id)
                  < PosOf(search.cortex_results, search.reranked[j].id)

\* A rerank that sorted two results of different similarity to one final
\* score (0.6*0.9 = 0.6*0.5 + 0.4*0.6), after a search with tied similarities
C9_Witness ==
    /\ Searched
    /\ search.handlers = {}
    /\ \E i, j \in 1..Len(search.reranked) :
          /\ i < j
          /\ search.reranked[i].score = 90 /\ search.reranked[j].score = 50
          /\ search.reranked[i].final_score = search.reranked[j].final_score
    /\ \E i, j \in 1..Len(search.cortex_results) :
          i < j /\ search.cortex_results[i].score = search.cortex_results[j].score

\* C10 as claimed: with no candidate, the ranker returns the empty list and
\* enters no except clause.
C10_Claimed ==
    (Searched /\ search.cortex_results = << >>)
    => /\ search.returned = << >>
       /\ search.handlers = {}

\* C10: with no candidate, the ranker returns the empty list; the LLM is
\* still called, so the rerank's except clauses are entered when the call
\* raises or the answer is no JSON, and only then.
C10_EmptyCandidates ==
    (Searched /\ search.cortex_results = << >>)
    => /\ search.returned = << >>
       /\ search.reranked = << >>
       /\ search.handlers \subseteq {"rerank", "json"}
       /\ (search.handlers = {}) <=> (search.env.llm.kind \in {"dict", "not_dict"})

\* Rows in the warehouse, none with a usable embedding, and an LLM answer
\* that is JSON but no dict
C10_Witness ==
    /\ Searched
    /\ Len(rows) = 2
    /\ search.cortex_results = << >>
    /\ search.env.llm.kind = "not_dict"
    /\ search.returned = << >>

-----------------------------------------------------------------------------
(* Properties of the helpers of BiasDetector *)

\* The words of a text: its chunks that are not whitespace
WordIndices(text) == {i \in 1..Len(text) : text[i] # Whitespace}

\* A token with the punctuation around it removed
Strip(w) == IF w = "elite," THEN "elite" ELSE w

\* The tokens of a text, cut at whitespace and punctuation, that are in S
TokensIn(text, S) == Cardinality({i \in WordIndices(text) : Strip(Lower(text[i])) \in S})

\* C15 as claimed: each count is the number of tokens of the text, cut at
\* whitespace and punctuation and lowered, that are in the category's set, and
\* the counts have exactly the keys emotional, loaded, partisan.
C15_Claimed ==
    probe.op = "language" =>
        LET counts == probe.out.indicator_counts
        IN  /\ DOMAIN counts = {"emotional", "loaded", "partisan"}
            /\ counts.emotional = TokensIn(probe.text, LoadBiasIndicators.emotional_language)
            /\ counts.loaded = TokensIn(probe.text, LoadBiasIndicators.loaded_words)
            /\ counts.partisan = TokensIn(probe.text, LoadBiasIndicators.partisan_terms)

\* C16: emotional_score is the sum of the three counts over the number of
\* words, 0 for a text without words, always within [0,1]; a text without
\* words has all counts zero.
C16_EmotionalScore ==
    probe.op = "language" =>
        LET counts == probe.out.indicator_counts
            score == probe.out.emotional_score
            total == counts.emotional + counts.loaded + counts.partisan
            n == Cardinality(WordIndices(probe.text))
        IN  /\ score.den > 0
            /\ score.num * n = total * score.den
            /\ n = 0 => (score.num = 0 /\ total = 0)
            /\ RatLeq(Rat(0, 1), score) /\ RatLeq(score, Rat(1, 1))

C16_Witness ==
    /\ probe.op = "language"
    /\ Cardinality(WordIndices(probe.text)) = 3
    /\ probe.out.indicator_counts.emotional = 1
    /\ probe.out.indicator_counts.loaded = 1
    /\ RatEq(probe.out.emotional_score, Rat(2, 3))

\* C17: the label is positive from 0.05 up, negative from -0.05 down and
\* neutral between, and _analyze_sentiment and _get_sentiment_label agree.
C17_SentimentLabel ==
    probe.op = "sentiment" =>
        /\ probe.analyzed.sentiment = probe.label
        /\ probe.analyzed.scores.compound = probe.compound
        /\ probe.label \in SentimentLabels
        /\ probe.label = "positive" <=> probe.compound >= 5
        /\ probe.label = "negative" <=> probe.compound <= -5
        /\ probe.label = "neutral" <=> (probe.compound > -5 /\ probe.compound < 5)

C17_Witness ==
    probe.op = "sentiment" /\ probe.compound = 5 /\ probe.analyzed.sentiment = "positive"

\* C18 as claimed: with no candidate the source analysis is (0, 0.5, 0.5, 0)
\* whether or not the primary article has a domain.
C18_Claimed ==
    (probe.op = "sources" /\ OrEmpty(probe.related_articles) = << >>) =>
        /\ RatEq(probe.out.diversity, Rat(0, 1))
        /\ RatEq(probe.out.credibility, Rat(1, 2))
        /\ RatEq(probe.out.consistency, Rat(1, 2))
        /\ RatEq(probe.out.bias_score, Rat(0, 1))

\* C18: with no candidate, consistency is 0.5 and bias_score 0; diversity and
\* credibility are 0 and 0.5 when the primary article has no domain, and 1
\* and 0.7 when it has one.
C18_EmptyCandidates ==
    (probe.op = "sources" /\ OrEmpty(probe.related_articles) = << >>) =>
        /\ RatEq(probe.out.consistency, Rat(1, 2))
        /\ RatEq(probe.out.bias_score, Rat(0, 1))
        /\ probe.article_data.domain = "" =>
              /\ RatEq(probe.out.diversity, Rat(0, 1))
              /\ RatEq(probe.out.credibility, Rat(1, 2))
        /\ probe.article_data.domain # "" =>
              /\ RatEq(probe.out.diversity, Rat(1, 1))
              /\ RatEq(probe.out.credibility, Rat(7, 10))

C18_Witness ==
    /\ probe.op = "sources"
    /\ probe.related_articles = ListRelated(<< >>)
    /\ probe.article_data.domain = "a.example"
    /\ RatEq(probe.out.diversity, Rat(1, 1))

\* The domains of the primary article and the candidates, "" standing for none
DistinctDomains(article_data, related) ==
    ({article_data.domain} \cup {related[i].metadata.domain : i \in 1..Len(related)}) \ {""}

TokenLeaning(related, terms) ==
    Cardinality({i \in 1..Len(related) :
        \E j \in 1..Len(related[i].metadata.content) :
            Lower(related[i].metadata.content[j]) \in terms})

\* C20 as claimed: the source bias is (right - left) / |candidates| within
\* [-1,1], a candidate leaning left or right exactly when a term of the list
\* is a whole token of its content.
C20_Claimed ==
    (probe.op = "sources" /\ OrEmpty(probe.related_articles) # << >>) =>
        LET related == OrEmpty(probe.related_articles)
        IN  /\ RatEq(probe.out.bias_score,
                     Rat(TokenLeaning(related, RightTerms) - TokenLeaning(related, LeftTerms),
                         Len(related)))
            /\ RatLeq(Rat(-1, 1), probe.out.bias_score)
            /\ RatLeq(probe.out.bias_score, Rat(1, 1))

-----------------------------------------------------------------------------
(* Properties of the score blend and of the escalation *)

\* The leaning the claimed rule gives: left and right are escalated when the
\* partisan counts differ by more than five, center never is
EscalatedByDifference(base_category, left_count, right_count) ==
    LET diff == IF left_count >= right_count THEN left_count - right_count
                ELSE right_count - left_count
    IN  IF diff > 5 /\ base_category = "left" THEN "far left"
        ELSE IF diff > 5 /\ base_category = "right" THEN "far right"
        ELSE base_category

\* C14 as claimed: whatever left and right counts make up the partisan count,
\* the leaning is the band of the score, with left and right escalated exactly
\* when the two counts differ by more than five, and center never escalated.
C14_Claimed ==
    lean.valid =>
        \A left_count \in 0..lean.indicator_counts.partisan :
            lean.leaning =
                EscalatedByDifference(GetBaseCategory(lean.bias_score), left_count,
                                      lean.indicator_counts.partisan - left_count)

\* C13 as claimed: of two analyze calls on the same article with computed
\* results, a different source component (from different related_articles)
\* gives a different final score.
C13_Claimed ==
    \A i, j \in CallIds :
        (/\ calls[i].article_data = calls[j].article_data
         /\ "error" \notin ResultOf(i).keys
         /\ "error" \notin ResultOf(j).keys
         /\ ~RatEq(SourceBias(OrEmpty(calls[i].related_articles)),
                   SourceBias(OrEmpty(calls[j].related_articles))))
        => ~RatEq(ResultOf(i).bias_score, ResultOf(j).bias_score)

-----------------------------------------------------------------------------
(* Properties of the presentation *)

\* C11 as claimed: show_results renders the sections it would render for the
\* same result without the error field; whether error is set changes no step.
C11_Claimed ==
    display.valid =>
        display.steps =
            ShowResults([display.bias_results EXCEPT !.keys = @ \ {"error"}],
                        display.related_articles)

-----------------------------------------------------------------------------
(* Properties of parallel invocations *)

\* What the invocation returns when it runs alone
Sequential(job) ==
    IF job.kind = "analyze"
    THEN [NoReturn EXCEPT !.bias_results =
             Analyze(NewDetector, job.article_data, job.related_articles,
                     job.compound, "none").result]
    ELSE [NoReturn EXCEPT !.ranked =
             RerankWithMistral(job.search_results, job.llm).results]

\* C12: every invocation that has finished, whatever the other did in
\* between, returns what it returns when run alone, and the shared detector
\* is as it was constructed.
C12_ParallelAsSequential ==
    /\ detector = NewDetector
    /\ \A t \in 1..Len(par.threads) :
          par.threads[t].pc = "done"
          => par.threads[t].returned = Sequential(par.threads[t].job)

\* Two invocations on different articles, the second started and part-way
\* when the first finishes with a computed result
C12_Witness ==
    /\ Len(par.threads) = 2
    /\ par.threads[1].job.kind = "analyze"
    /\ par.threads[2].job.kind = "analyze"
    /\ par.threads[1].job.article_data = Article(<<"Shocking">>)
    /\ par.threads[2].job.article_data = Article(<<"the">>)
    /\ par.threads[1].pc = "done"
    /\ par.threads[2].pc = "score"
    /\ par.threads[1].returned.bias_results.bias_indicators.counts.emotional = 1

-----------------------------------------------------------------------------
(* Properties of the source consistency *)

\* The tokens of a text as a set
TokenSet(text) == {text[i] : i \in WordIndices(text)}

\* |A \cap B| / |A \cup B|, 0 over an empty union
Jaccard(A, B) ==
    IF A \cup B = {} THEN Rat(0, 1)
    ELSE Rat(Cardinality(A \cap B), Cardinality(A \cup B))

\* The sum of the Jaccard similarities of the main text and the first k candidates
RECURSIVE JaccardSum(_, _, _)
JaccardSum(main, related, k) ==
    IF k = 0 THEN Rat(0, 1)
    ELSE RatAdd(JaccardSum(main, related, k - 1),
                Jaccard(main, TokenSet(LowerText(related[k].metadata.content))))

\* C21: each similarity is the Jaccard overlap of the two token sets, the
\* same in both orders, within [0,1], 1 for equal non-empty token sets and 0
\* for two empty texts; the consistency of a non-empty candidate list is the
\* mean of the similarities of the lowered texts and lies within [0,1].
C21_JaccardConsistency ==
    /\ probe.op = "similarity" =>
          LET A == TokenSet(probe.text1)
              B == TokenSet(probe.text2)
          IN  /\ probe.out.den > 0
              /\ RatEq(probe.out, Jaccard(A, B))
              /\ RatEq(probe.out, probe.swapped)
              /\ RatLeq(Rat(0, 1), probe.out) /\ RatLeq(probe.out, Rat(1, 1))
              /\ (A = B /\ A # {}) => RatEq(probe.out, Rat(1, 1))
              /\ (A = {} /\ B = {}) => RatEq(probe.out, Rat(0, 1))
    /\ (probe.op = "sources" /\ OrEmpty(probe.related_articles) # << >>) =>
          LET related == OrEmpty(probe.related_articles)
              main == TokenSet(LowerText(probe.article_data.text))
              total == JaccardSum(main, related, Len(related))
              consistency == probe.out.consistency
          IN  /\ consistency.den > 0
              /\ consistency.num * total.den * Len(related) = total.num * consistency.den
              /\ RatLeq(Rat(0, 1), consistency) /\ RatLeq(consistency, Rat(1, 1))

\* Two candidates, one sharing one of the two words of the primary text and
\* one sharing none: consistency (1/2 + 0) / 2
C21_Witness ==
    /\ probe.op = "sources"
    /\ probe.article_data.text = <<"the", "liberal">>
    /\ Len(probe.related_articles.items) = 2
    /\ probe.related_articles.items[1].metadata.content = <<"liberal">>
    /\ probe.related_articles.items[2].metadata.content = <<"conservative">>
    /\ RatEq(probe.out.consistency, Rat(1, 4))

-----------------------------------------------------------------------------
(* Properties of the fact checking *)

\* The mean confidence (tenths) of the results, 0.5 when there is none
MeanConfidence(results) ==
    IF results = << >> THEN Rat(1, 2)
    ELSE Rat(RatSum([i \in 1..Len(results) |-> Rat(results[i].confidence, 10)]).num,
             RatSum([i \in 1..Len(results) |-> Rat(results[i].confidence, 10)]).den
                * Len(results))

\* C22 as claimed: the results are the first five claim sentences at most, in
\* text order, each with confidence 0.7, and on every return path accuracy is
\* the mean confidence (0.5 without claims) and bias_score (1 - accuracy) * 0.5.
C22_Claimed ==
    probe.op = "facts" =>
        LET out == probe.out
            claims == SelectSeq(probe.sentences, MakesAssertion)
        IN  /\ probe.tokenize_ok =>
                  /\ Len(out.results) = Min(5, Len(claims))
                  /\ \A i \in 1..Len(out.results) :
                        /\ out.results[i].claim = claims[i]
                        /\ out.results[i].confidence = 7
            /\ RatEq(out.accuracy, MeanConfidence(out.results))
            /\ RatEq(out.bias_score,
                     Rat(out.accuracy.den - out.accuracy.num, 2 * out.accuracy.den))

-----------------------------------------------------------------------------
(* Properties of the findings and of the inputs *)

ToneFindings == {"Strong negative tone detected", "Strong positive tone detected"}

InSeq(x, seq) == \E k \in 1..Len(seq) : seq[k] = x

\* C23 as claimed, for the rows of the table analyze has the inputs of: a
\* tone finding exactly when |sentiment| > 0.3, a loaded-language finding
\* exactly when more than five loaded words are counted, and the
\* differing-perspectives recommendation exactly when |final| > 0.4.
C23_Claimed ==
    \A i \in CallIds :
        "error" \notin ResultOf(i).keys =>
            LET r == ResultOf(i)
                compound == r.sentiment_scores.compound
            IN  /\ (\E f \in ToneFindings : InSeq(f, r.key_findings))
                      <=> (compound > 30 \/ compound < -30)
                /\ InSeq("Significant use of loaded language", r.key_findings)
                      <=> r.bias_indicators.counts.loaded > 5
                /\ InSeq("Consider consulting sources with different perspectives",
                         r.recommendations)
                      <=> RatLt(Hundredths(40), RatAbs(r.bias_score))

\* C24 as claimed, for the rerank: the candidate list passed in has the same
\* elements in the same order after the call.
C24_Claimed ==
    Searched =>
        ArgumentAfterRerank(search.cortex_results, search.env.llm) = search.cortex_results

-----------------------------------------------------------------------------
(* Properties of the score range *)

\* C26: in a computed result the unclamped 0.3*compound + 0.7*emotional_score
\* lies within [-0.3, 1.0] and is the bias_score, the band of the score is
\* never far left, and the leaning is far left only with more than five
\* partisan words and a negative score.
C26_UnclampedRange ==
    \A i \in CallIds :
        "error" \notin ResultOf(i).keys =>
            LET r == ResultOf(i)
                counts == r.bias_indicators.counts
                words == Cardinality(WordIndices(calls[i].article_data.text))
                \* a text of whitespace alone has emotional_score 0
                unclamped ==
                    IF words = 0 THEN Rat(3 * r.sentiment_scores.compound, 1000)
                    ELSE Rat(3 * r.sentiment_scores.compound * words
                               + 700 * (counts.emotional + counts.loaded + counts.partisan),
                             1000 * words)
            IN  /\ RatLeq(Hundredths(-30), unclamped) /\ RatLeq(unclamped, Rat(1, 1))
                /\ RatEq(r.bias_score, unclamped)
                /\ GetBaseCategory(r.bias_score) # "far left"
                /\ r.political_leaning = "far left"
                      => (counts.partisan > 5 /\ r.bias_score.num < 0)

\* Six partisan words among fifteen and the most negative compound: the score
\* is -0.3 + 0.7 * 6/15 = -0.02 and the escalation gives far left
C26_Witness ==
    /\ Len(calls) = 1
    /\ calls[1].compound = -100
    /\ ResultOf(1).bias_indicators.counts.partisan = 6
    /\ Len(calls[1].article_data.text) = 15
    /\ RatEq(ResultOf(1).bias_score, Hundredths(-2))
    /\ ResultOf(1).political_leaning = "far left"

-----------------------------------------------------------------------------
(* Properties of store_analysis *)

\* How often an event is in the log
CountOf(event, log) == Cardinality({k \in 1..Len(log) : log[k] = event})

\* C25: commit is sent only after every insert of the call returned, and the
\* call then returns; when an insert raises, rollback is sent, commit is not,
\* and the exception leaves the call; the cursor is closed, once and last, on
\* every path.
C25_AllOrNothing ==
    LET inserts == StoreInserts(store.related_articles)
        log == store.log
    IN  /\ CountOf("commit", log) > 0 =>
              /\ CountOf("commit", log) = 1
              /\ SubSeq(log, 2, Len(inserts) + 1) = inserts
              /\ log[Len(inserts) + 2] = "commit"
        /\ store.outcome = "returned" =>
              /\ CountOf("commit", log) = 1
              /\ CountOf("rollback", log) = 0
              /\ store.failed = "none"
        /\ (store.pc = "done" /\ store.failed \notin {"none", "commit"}) =>
              /\ CountOf("rollback", log) = 1
              /\ CountOf("commit", log) = 0
              /\ store.outcome = "raised"
        /\ store.pc = "done" =>
              /\ store.outcome \in {"returned", "raised"}
              /\ log[Len(log)] = "close"
              /\ CountOf("close", log) = 1

\* The relationship row of the second related article fails after five
\* inserts went through
C25_Witness ==
    /\ store.pc = "done"
    /\ Len(store.related_articles) = 2
    /\ store.failed = "insert_relationship"
    /\ store.log = <<"cursor", "insert_article", "insert_analysis", "insert_related",
                     "insert_relationship", "insert_related", "insert_relationship",
                     "rollback", "close">>

-----------------------------------------------------------------------------
(* Properties of the rerank and of find_related *)

Ids(list) == {list[k].id : k \in 1..Len(list)}

\* The results the scoring loop reaches: all of them, or those up to the
\* first value that is no number
Reached(values, k) == FirstBad(values) = 0 \/ k <= FirstBad(values)

RerankFailed == "rerank" \in search.handlers

\* What holds of find_related and semantic_search on every path
FindRelatedFrame ==
    /\ search.valid =>
          /\ Len(search.returned) <= search.top_k
          /\ (~search.env.encode_ok \/ ~search.env.search_ok) => search.returned = << >>
          /\ search.cursor_log # << >> =>
                /\ search.cursor_log[1] = "cursor"
                /\ search.cursor_log[Len(search.cursor_log)] = "close"
          /\ search.env.encode_ok => search.cursor_log # << >>
    /\ Searched =>
          LET usable == {k \in 1..Len(search.fetched) : search.fetched[k].embedding_ok}
          IN  /\ Len(search.cortex_results) = Min(2 * search.top_k, Cardinality(usable))
              /\ Ids(search.cortex_results) \subseteq {search.fetched[k].id : k \in usable}
              /\ \A a, b \in 1..Len(search.cortex_results) :
                    a < b => search.cortex_results[a].score >= search.cortex_results[b].score
              /\ Ids(search.returned) \subseteq Ids(search.cortex_results)

\* C28 as claimed: find_related returns the empty list also when the
\* reranking raises.
C28_Claimed ==
    /\ FindRelatedFrame
    /\ (Searched /\ RerankFailed) => search.returned = << >>

\* C28: find_related returns the empty list when the embedding or the
\* warehouse search raises; when the reranking fails, the rerank itself
\* catches the exception and find_related returns the first top_k candidates
\* in the order semantic_search gave them.
C28_FindRelated ==
    /\ FindRelatedFrame
    /\ search.valid =>
          ("find_related" \in search.handlers)
              <=> (~search.env.encode_ok \/ ~search.env.search_ok)
    /\ (Searched /\ RerankFailed) =>
          /\ Len(search.returned) = Min(search.top_k, Len(search.cortex_results))
          /\ \A k \in 1..Len(search.returned) :
                search.returned[k].id = search.cortex_results[k].id

\* The LLM call raises with three candidates fetched and top_k 1
C28_Witness ==
    /\ Searched
    /\ search.env.llm.kind = "generate_error"
    /\ search.top_k = 1
    /\ Len(search.cortex_results) = 2
    /\ Len(search.fetched) = 3
    /\ Len(search.returned) = 1
    /\ search.cursor_log = <<"cursor", "execute", "fetchall", "close">>

-----------------------------------------------------------------------------
(* Properties of the bias meter *)

MeterCategories == {"far_left", "left", "center", "right", "far_right"}

\* The band, 1 to 5 from far left to far right, a classifier's answer stands for
BandOf(answer) ==
    CASE answer \in {"far_left", "far left", "#1E3FCC", "rgb(65, 105, 225)"} -> 1
      [] answer \in {"left", "#4169E1", "rgb(100, 149, 237)"} -> 2
      [] answer \in {"center", "#808080", "rgb(169, 169, 169)"} -> 3
      [] answer \in {"right", "#CD5C5C", "rgb(205, 92, 92)"} -> 4
      [] answer \in {"far_right", "far right", "#8B0000", "rgb(178, 34, 34)"} -> 5

\* C29 as claimed: the category of the label, the colour of the bar, the
\* colour of _get_bias_color and the leaning without escalation name the same
\* band for every score.
C29_Claimed ==
    /\ meter.op = "display" =>
          /\ BandOf(meter.bias_category) = BandOf(meter.bar_color)
          /\ BandOf(meter.bias_category)
                = BandOf(GetBaseCategory(Hundredths(meter.bias_score.val)))
    /\ meter.op = "color" =>
          /\ BandOf(meter.color) = BandOf(GetBiasCategory(meter.bias_score))
          /\ BandOf(meter.color) = BandOf(GetBaseCategory(Hundredths(meter.bias_score.val)))

====
